---- MODULE Spec2Model ----
(***************************************************************************)
(* State-machine model of hedge's CUDA execution-plan layer and of its     *)
(* vector-expression builder.                                              *)
(*                                                                         *)
(*   Spec, SpecTwin   hedge/backends/cuda/plan.py: optimize_plan, with the *)
(*                    part of ExecutionPlan it relies on and the           *)
(*                    target_func of make_diff_plan.                       *)
(*   SpecGiven        plan.py: PlanGivenData and _find_microblock_size.    *)
(*   SpecPlanCalls    plan.py: occupancy_record, invalid_reason, __str__   *)
(*                    of one plan instance, one caller at a time.          *)
(*   SpecBuilder      hedge/backends/vector_expr.py: the constructor of    *)
(*                    CompiledVectorExpressionBase and get_kernel.         *)
(*   SpecConcurrent   the memoized accessors with several callers.         *)
(*   SpecDiffPlans    plan.py: the plan generator of make_diff_plan.       *)
(*                                                                         *)
(* In the search a plan is identified by its position in the sequence the  *)
(* generator yields.  Occupancies are exact multiples of the comparison    *)
(* tolerance 1e-10 of line 113, so that the tolerance is the integer       *)
(* Epsilon, and the occupancy slack is a percentage, so that               *)
(* occupancy_slack*max_occup is an integer product.  The variables of the  *)
(* parts a specification does not run keep their idle values.              *)
(***************************************************************************)
EXTENDS Integers, Sequences, FiniteSets, TLC

\* Largest number of plans the generator yields.
MaxPlans == 2

\* Python's None (for log_filename and invalid_reason()).
None == "None"

\* The optimization name passed as opt_name.
OptName == "diff"

\* The debug-flag tokens optimize_plan reads.
NoPlanToken == "cuda_no_plan"
NoPlanNameToken == "cuda_no_plan_diff"
NoProgressToken == "cuda_plan_no_progress"
TraceToken == "cuda_diff_plan"
LogToken == "cuda_plan_log"
Tokens == {NoPlanToken, NoPlanNameToken, NoProgressToken, TraceToken, LogToken}

\* The tolerance 1e-10 of the pruning test, the unit occupancies are counted in.
Epsilon == 1

\* occupancy_slack is counted in hundredths (the default 0.5 is 50).
SlackScale == 100
Slacks == {0, 50, 100}

\* What computing a plan's OccupancyRecord can give: a ValueError, or a record
\* with one of these occupancies.
Occupancies == {1, 9, 10}
PlanKinds == [raises : {FALSE}, occupancy : Occupancies]
               \cup {[raises |-> TRUE, occupancy |-> 0]}

\* What target_func can return for a plan: None, a scalar cost, a tuple
\* (cost, extras...) or a tuple (None, extras...).
Costs == {3, 7}
Uncalled == [kind |-> "uncalled", cost |-> 0]
BenchResults == {[kind |-> "none", cost |-> 0], [kind |-> "tuple_none", cost |-> 0]}
                  \cup [kind : {"scalar", "tuple"}, cost : Costs]

LogNames == {None, "diff-3"}

NoResult == <<0, 0>>

VARIABLES
    args,           \* maximize, debug_flags, occupancy_slack, log_filename as passed
    gen,            \* what plan_generator() yields: the plans, in order
    target_func,    \* what target_func returned for each plan it was called on
    pc,             \* where the call is
    plans,          \* the feasible plans (positions in gen)
    debug,
    show_progress,
    log_filename,   \* the local, after lines 68-69
    max_occup,
    desired_occup,  \* occupancy_slack * max_occup, in 1/SlackScale units
    idx,            \* position of the for loop in plans
    plan_values,    \* <<<<number, plan>>, value>> entries
    calls,          \* the plans target_func was called on, in order
    kernels_made,   \* the plans make_kernel was called on, in order
    db_conn,        \* "none", "open" or "committed"
    db_rows,        \* the rows inserted into table data: <<plan, value>>
    pbar,           \* "none", "active" or "finished"
    pbar_steps,     \* number of pbar.progress() calls
    printed,        \* number of trace lines printed
    outcome,        \* "running", "returned", or the exception raised
    result,         \* the (plan, cost) pair returned
    run,            \* 1 in the first call, 2 in a repeated call
    first           \* what the first call did, once a second one has begun

searchVars == <<args, gen, target_func, pc, plans, debug, show_progress,
                log_filename, max_occup, desired_occup, idx, plan_values, calls,
                kernels_made, db_conn, db_rows, pbar, pbar_steps, printed,
                outcome, result, run, first>>

\* The search is not running: the state of the variables above in the
\* specifications of the other parts of the package.
SearchIdle ==
    /\ args = [maximize |-> FALSE, debug_flags |-> {}, occupancy_slack |-> 0,
               log_filename |-> None]
    /\ gen = <<>>
    /\ target_func = <<>>
    /\ pc = "idle"
    /\ plans = <<>>
    /\ debug = FALSE
    /\ show_progress = FALSE
    /\ log_filename = None
    /\ max_occup = 0
    /\ desired_occup = 0
    /\ idx = 0
    /\ plan_values = <<>>
    /\ calls = <<>>
    /\ kernels_made = <<>>
    /\ db_conn = "none"
    /\ db_rows = <<>>
    /\ pbar = "none"
    /\ pbar_steps = 0
    /\ printed = 0
    /\ outcome = "idle"
    /\ result = NoResult
    /\ run = 1
    /\ first = [calls |-> <<>>, outcome |-> "running", result |-> NoResult,
                log_filename |-> None, debug_flags |-> {}]

----------------------------------------------------------------------------
\* PlanGivenData (plan.py lines 211-261): the construction of the given-data
\* descriptor and its microblock layout.

\* Largest node count of the local discretization tried below the scan range.
MaxDofs == 24

\* range(1, 256) of line 249: the last alignment multiple tried.
MaxAlignChunks == 255

\* overhead <= 0.05 of line 254, as overhead * OverheadScale <= 1.
OverheadScale == 20

\* devdata.align_words(float_size): words per aligned memory transaction.
AlignSizes == {1, 4, 16}

\* ldis.node_count(): small counts, and counts beyond every multiple the scan
\* tries for the smallest alignment.
NodeCounts == (1..MaxDofs) \cup {MaxAlignChunks + 1, MaxAlignChunks + 45}

NoMicroblock == [align_size |-> 0, elements |-> 0, aligned_floats |-> 0]

VARIABLES
    given_args,     \* devdata.align_words(...), ldis.node_count(), allow_microblocking
    given_state,    \* "idle", "new", "scanning", "constructed" or the exception raised
    mb_align_chunks, \* the loop variable of line 249
    microblock      \* self.microblock

givenVars == <<given_args, given_state, mb_align_chunks, microblock>>

GivenIdle ==
    /\ given_args = [align_size |-> 0, dofs_per_el |-> 0, allow_microblocking |-> FALSE]
    /\ given_state = "idle"
    /\ mb_align_chunks = 0
    /\ microblock = NoMicroblock

----------------------------------------------------------------------------
\* Callers of the accessors wrapped by pytools' memoize_method:
\* ExecutionPlan.occupancy_record (plan.py lines 193-198), reached directly
\* and through invalid_reason and __str__, and
\* CompiledVectorExpressionBase.get_kernel (vector_expr.py lines 108-149).

\* Largest number of calls begun, and of callers running at the same time.
MaxCalls == 3
MaxCallers == 2

\* The methods of one plan instance that reach the occupancy computation.
PlanMethods == {"occupancy_record", "invalid_reason", "__str__"}

\* The argument tuple of occupancy_record(), the key of its cache entry.
NoArgs == <<>>

\* A cache without entries: the instance has no _memoize_dic attribute yet.
NoCache == <<>>

NotCalling == [pc |-> "idle", method |-> "none", key |-> NoArgs, rec |-> 0]

VARIABLES
    caller,             \* per caller: position in the call it is making
    log,                \* the calls that have ended, with what they gave
    plan_live,          \* a plan instance exists
    plan_raises,        \* OccupancyRecord(...) raises ValueError for it
    occ_memo,           \* the instance's cache of occupancy_record
    occ_computations    \* number of OccupancyRecord(...) evaluations

callerVars == <<caller, log>>
planVars == <<plan_live, plan_raises, occ_memo, occ_computations>>

CallersIdle ==
    /\ caller = <<>>
    /\ log = <<>>

PlanIdle ==
    /\ plan_live = FALSE
    /\ plan_raises = FALSE
    /\ occ_memo = NoCache
    /\ occ_computations = 0

----------------------------------------------------------------------------
\* CompiledVectorExpressionBase (vector_expr.py lines 66-149).  An expression
\* is a node [kind, name, args]: a variable or constant leaf, a sum or a
\* product of two expressions, a common-subexpression wrapper around one
\* expression, and two kinds some mapper has no handler for.

Variable(n) == [kind |-> "variable", name |-> n, args |-> <<>>]
Constant(c) == [kind |-> "constant", name |-> c, args |-> <<>>]
Sum(l, r) == [kind |-> "sum", name |-> "", args |-> <<l, r>>]
Product(l, r) == [kind |-> "product", name |-> "", args |-> <<l, r>>]
Subscript(l, r) == [kind |-> "subscript", name |-> "", args |-> <<l, r>>]
CommonSubexpression(e) == [kind |-> "cse", name |-> "", args |-> <<e>>]
\* A node kind neither the substitution mapper nor its mixin has a map
\* method for, and that is not a dependency.
Foreign(e) == [kind |-> "foreign", name |-> "", args |-> <<e>>]
\* A node kind the identity mappers pass through and the C code mapper has
\* no map method for.
NumpyArray == [kind |-> "numpy_array", name |-> "", args |-> <<>>]

\* a*b - c as pymbolic builds it.
Minus(l, r) == Sum(l, Product(Constant("-1"), r))

\* The target expressions a builder is constructed over.
TargetLists ==
    LET a == Variable("a")
        b == Variable("b")
        c == Variable("c")
        x == Variable("x")
    IN {<<Sum(Product(a, b), c), Minus(Product(a, b), c)>>,
        <<Sum(CommonSubexpression(Product(a, b)), c),
          Minus(CommonSubexpression(Product(a, b)), c)>>,
        <<Sum(a, Product(x, b))>>,
        <<Product(Constant("2"), a), x>>,
        <<Sum(Foreign(a), b)>>,
        <<Sum(a, NumpyArray)>>}

\* is_vector_func: the names of the dependencies it accepts as vectors.
Classifiers == {{"a", "b", "c"}, {"a", "c"}}

\* The dtypes a caller passes, and the (vector_dtypes, scalar_dtypes) keys.
DTypes == {"float32", "float64"}
Keys == DTypes \X DTypes

\* result_dtype_getter: the keys it rejects.
Rejections == {{}, {<<"float32", "float64">>}}

VARIABLES
    vec_exprs,          \* the constructor's arguments
    is_vector_func,
    result_dtype_getter,
    builder_state,      \* "idle", "new", "built" or the exception raised
    vector_exprs,       \* the derived fields of lines 80-104
    scalar_exprs,
    vector_names,
    scalar_names,
    constant_dtypes,
    exprs,
    kernel_memo,        \* the instance's cache of get_kernel
    compiles            \* per key, the number of make_kernel_internal runs

derivedVars == <<vector_exprs, scalar_exprs, vector_names, scalar_names,
                 constant_dtypes, exprs>>
builderVars == <<vec_exprs, is_vector_func, result_dtype_getter, builder_state,
                 derivedVars, kernel_memo, compiles>>

BuilderIdle ==
    /\ vec_exprs = <<>>
    /\ is_vector_func = {}
    /\ result_dtype_getter = {}
    /\ builder_state = "idle"
    /\ vector_exprs = <<>>
    /\ scalar_exprs = <<>>
    /\ vector_names = <<>>
    /\ scalar_names = <<>>
    /\ constant_dtypes = <<>>
    /\ exprs = <<>>
    /\ kernel_memo = NoCache
    /\ compiles = [k \in Keys |-> 0]

----------------------------------------------------------------------------
\* make_diff_plan.generate_plans (plan.py lines 353-384): the generator of
\* the candidate plans of the differentiation kernel.

\* The loop bounds of lines 366-368 and 377-378.
MAX_PARALLEL == 32
MAX_INLINE == 6
MAX_SEQ == 3

\* A Python integer, and the bound method obtained by reading the attribute
\* `name` of the given-data instance without calling it.  Two bound methods
\* are equal when instance and function are; an integer and a bound method
\* are never equal, and comparing them raises nothing.
PyInt(n) == [type |-> "int", int |-> n, im_func |-> "none"]
PyBoundMethod(name) == [type |-> "instancemethod", int |-> 0, im_func |-> name]

\* Given-data instances as _find_microblock_size leaves them: dofs_per_el()
\* of 4 and 8 on a device aligning to 4 floats.
DiffGivens ==
    {[dofs_per_el |-> 4,
      microblock |-> [align_size |-> 4, elements |-> 1, aligned_floats |-> 4]],
     [dofs_per_el |-> 8,
      microblock |-> [align_size |-> 4, elements |-> 1, aligned_floats |-> 8]]}

NoGiven == [dofs_per_el |-> 0, microblock |-> NoMicroblock]

\* discr.debug, with and without the flag of line 362.
DebugFlagSets == {{}, {"cuda_no_smem_matrix"}}

VARIABLES
    discr_debug,        \* the arguments of make_diff_plan
    given,
    aligned_preimage_dofs_per_microblock,
    preimage_dofs_per_el,
    aligned_image_dofs_per_microblock,
    image_dofs_per_el,
    generator_pc,       \* "idle", "start", "segmat", "sfield" or "exhausted"
    pe,                 \* the loop variables of lines 366-369 and 377-378
    inline,
    seq,
    segment_index,      \* position of segment_size in segment_sizes
    yielded             \* the plans yielded so far, in order

diffArgs == <<discr_debug, given, aligned_preimage_dofs_per_microblock,
              preimage_dofs_per_el, aligned_image_dofs_per_microblock,
              image_dofs_per_el>>
diffVars == <<diffArgs, generator_pc, pe, inline, seq, segment_index, yielded>>

DiffIdle ==
    /\ discr_debug = {}
    /\ given = NoGiven
    /\ aligned_preimage_dofs_per_microblock = 0
    /\ preimage_dofs_per_el = PyInt(0)
    /\ aligned_image_dofs_per_microblock = 0
    /\ image_dofs_per_el = PyInt(0)
    /\ generator_pc = "idle"
    /\ pe = 0
    /\ inline = 0
    /\ seq = 0
    /\ segment_index = 0
    /\ yielded = <<>>

----------------------------------------------------------------------------
\* All variables, and for each part of the package the variables of the
\* other parts, which its actions leave alone.
vars == <<searchVars, givenVars, callerVars, planVars, builderVars, diffVars>>
notSearch == <<givenVars, callerVars, planVars, builderVars, diffVars>>
notGiven == <<searchVars, callerVars, planVars, builderVars, diffVars>>
notPlan == <<searchVars, givenVars, builderVars, diffVars>>
notBuilder == <<searchVars, givenVars, planVars, diffVars>>
notDiff == <<searchVars, givenVars, callerVars, planVars, builderVars>>

----------------------------------------------------------------------------
\* PlanGivenData._find_microblock_size

\* hedge.backends.cuda.tools.int_ceiling: value rounded up to a multiple.
int_ceiling(value, multiple_of) ==
    ((value + multiple_of - 1) \div multiple_of) * multiple_of

\* Line 253-254 with a strict comparison.
overhead_strictly_below(mb_aligned_floats, mb_floats) ==
    (mb_aligned_floats - mb_floats) * OverheadScale < mb_aligned_floats

\* Lines 253-254: (mb_aligned_floats-mb_floats)/mb_aligned_floats <= 0.05 in
\* true division, both sides multiplied by 20*mb_aligned_floats.
overhead_ok(mb_aligned_floats, mb_floats) ==
    (mb_aligned_floats - mb_floats) * OverheadScale <= mb_aligned_floats

InitGiven ==
    /\ DiffIdle
    /\ SearchIdle
    /\ CallersIdle
    /\ PlanIdle
    /\ BuilderIdle
    /\ given_args \in [align_size : AlignSizes, dofs_per_el : NodeCounts,
                       allow_microblocking : BOOLEAN]
    /\ given_state = "new"
    /\ mb_align_chunks = 0
    /\ microblock = NoMicroblock

\* Lines 212-219 and 234-247: PlanGivenData.__init__ up to the scan of
\* _find_microblock_size; without microblocking the layout is returned here.
PlanGivenData ==
    /\ given_state = "new"
    /\ IF ~given_args.allow_microblocking
       THEN /\ microblock' = [align_size |-> given_args.align_size,
                              elements |-> 1,
                              aligned_floats |-> int_ceiling(given_args.dofs_per_el,
                                                             given_args.align_size)]
            /\ given_state' = "constructed"
            /\ mb_align_chunks' = mb_align_chunks
       ELSE /\ mb_align_chunks' = 1
            /\ given_state' = "scanning"
            /\ microblock' = microblock
    /\ UNCHANGED given_args
    /\ UNCHANGED notGiven

\* Lines 249-258: one iteration of the scan over range(1, 256).
ScanAlignChunks ==
    /\ given_state = "scanning"
    /\ mb_align_chunks <= MaxAlignChunks
    /\ LET mb_aligned_floats == given_args.align_size * mb_align_chunks
           mb_elements == mb_aligned_floats \div given_args.dofs_per_el
           mb_floats == given_args.dofs_per_el * mb_elements
       IN IF overhead_ok(mb_aligned_floats, mb_floats)
          THEN /\ microblock' = [align_size |-> given_args.align_size,
                                 elements |-> mb_elements,
                                 aligned_floats |-> mb_aligned_floats]
               /\ given_state' = "constructed"
               /\ mb_align_chunks' = mb_align_chunks
          ELSE /\ mb_align_chunks' = mb_align_chunks + 1
               /\ UNCHANGED <<microblock, given_state>>
    /\ UNCHANGED given_args
    /\ UNCHANGED notGiven

\* Line 261: the range is exhausted, assert False.
ScanExhausted ==
    /\ given_state = "scanning"
    /\ mb_align_chunks > MaxAlignChunks
    /\ given_state' = "AssertionError"
    /\ UNCHANGED <<given_args, mb_align_chunks, microblock>>
    /\ UNCHANGED notGiven

NextGiven == PlanGivenData \/ ScanAlignChunks \/ ScanExhausted

SpecGiven == InitGiven /\ [][NextGiven]_vars

----------------------------------------------------------------------------
\* pytools.memoize_method, the decorator of plan.py line 193 and
\* vector_expr.py line 108: the wrapper looks args up in the instance's
\* dictionary, and on a miss calls the method and stores what it returned.
\* An exception of the method leaves the wrapper before the store.

\* The store replacing the dictionary by one that holds the new entry only.
memoize_store_alone(cache, key, value) == [k \in {key} |-> value]

\* The store: the dictionary with the entry for key added.
memoize_store(cache, key, value) ==
    [k \in (DOMAIN cache) \cup {key} |-> IF k = key THEN value ELSE cache[k]]

\* The wrapper caching a failure as if it were a result.
memoize_failure_cached(cache, key) == memoize_store(cache, key, 0)

\* What the dictionary is after the method raised: what it was.
memoize_failure(cache, key) == cache

\* The wrapper never finding an entry.
memoize_always_miss(cache, key) == FALSE

\* The lookup: args is a key of the dictionary.
memoize_hit(cache, key) == key \in DOMAIN cache

\* The calls begun so far: the ended ones and the ones under way.
CallsBegun == Len(log) + Cardinality({t \in DOMAIN caller : caller[t].pc # "idle"})

\* What a plan method gives its caller once occupancy_record() has returned
\* the record rec or raised (raised = TRUE): invalid_reason (lines 166-173)
\* turns the record into None and the ValueError into its text, __str__
\* (lines 200-205) formats the record and lets the ValueError through.
PlanOutcome(method, raised, rec) ==
    [method |-> method, key |-> NoArgs, rec |-> rec,
     kind |-> IF method = "invalid_reason"
              THEN (IF raised THEN "text" ELSE "None")
              ELSE IF raised THEN "ValueError"
              ELSE IF method = "__str__" THEN "string" ELSE "record"]

\* A caller begins occupancy_record(), invalid_reason() or __str__().
CallPlanMethod ==
    \E t \in DOMAIN caller :
        /\ plan_live
        /\ caller[t].pc = "idle"
        /\ CallsBegun < MaxCalls
        /\ \E m \in PlanMethods :
             caller' = [caller EXCEPT ![t] = [pc |-> "lookup", method |-> m,
                                              key |-> NoArgs, rec |-> 0]]
        /\ UNCHANGED <<log, planVars>>
        /\ UNCHANGED notPlan

\* Line 193, the wrapper's lookup: a hit returns the cached record.
OccupancyLookup ==
    \E t \in DOMAIN caller :
        /\ caller[t].pc = "lookup"
        /\ caller[t].method \in PlanMethods
        /\ IF memoize_hit(occ_memo, NoArgs)
           THEN /\ log' = Append(log, PlanOutcome(caller[t].method, FALSE, occ_memo[NoArgs]))
                /\ caller' = [caller EXCEPT ![t] = NotCalling]
           ELSE /\ caller' = [caller EXCEPT ![t].pc = "compute"]
                /\ log' = log
        /\ UNCHANGED planVars
        /\ UNCHANGED notPlan

\* Lines 195-198: OccupancyRecord(...) is evaluated; its ValueError leaves
\* through the wrapper.
OccupancyCompute ==
    \E t \in DOMAIN caller :
        /\ caller[t].pc = "compute"
        /\ caller[t].method \in PlanMethods
        /\ occ_computations' = occ_computations + 1
        /\ IF plan_raises
           THEN /\ log' = Append(log, PlanOutcome(caller[t].method, TRUE, 0))
                /\ caller' = [caller EXCEPT ![t] = NotCalling]
                /\ occ_memo' = memoize_failure(occ_memo, NoArgs)
           ELSE /\ caller' = [caller EXCEPT ![t].pc = "store",
                                            ![t].rec = occ_computations + 1]
                /\ UNCHANGED <<log, occ_memo>>
        /\ UNCHANGED <<plan_live, plan_raises>>
        /\ UNCHANGED notPlan

\* Line 193, the wrapper's store, and the return of the new record.
OccupancyStore ==
    \E t \in DOMAIN caller :
        /\ caller[t].pc = "store"
        /\ caller[t].method \in PlanMethods
        /\ occ_memo' = memoize_store(occ_memo, NoArgs, caller[t].rec)
        /\ log' = Append(log, PlanOutcome(caller[t].method, FALSE, caller[t].rec))
        /\ caller' = [caller EXCEPT ![t] = NotCalling]
        /\ UNCHANGED <<plan_live, plan_raises, occ_computations>>
        /\ UNCHANGED notPlan

\* One plan instance and one caller at a time.
InitPlanCalls ==
    /\ DiffIdle
    /\ SearchIdle
    /\ GivenIdle
    /\ caller = [t \in {1} |-> NotCalling]
    /\ log = <<>>
    /\ plan_live = TRUE
    /\ plan_raises \in BOOLEAN
    /\ occ_memo = NoCache
    /\ occ_computations = 0
    /\ BuilderIdle

NextPlanCalls ==
    CallPlanMethod \/ OccupancyLookup \/ OccupancyCompute \/ OccupancyStore

SpecPlanCalls == InitPlanCalls /\ [][NextPlanCalls]_vars

----------------------------------------------------------------------------
\* CompiledVectorExpressionBase.__init__ (vector_expr.py lines 67-104)

\* hedge.optemplate.DependencyMapper as called at lines 74-78: the variables
\* an expression depends on, descending into every other node.
RECURSIVE dep_mapper(_)
dep_mapper(e) ==
    IF e.kind = "variable" THEN {e}
    ELSE UNION {dep_mapper(e.args[k]) : k \in 1..Len(e.args)}

\* Line 78: the union of the dependencies of the target expressions.
Dependencies(ves) == UNION {dep_mapper(ves[k]) : k \in 1..Len(ves)}

\* The orders in which iterating over a set can give its elements.
Orderings(S) ==
    {o \in [1..Cardinality(S) -> S] :
        \A i, j \in 1..Cardinality(S) : i # j => o[i] # o[j]}

\* Line 80: [dep for dep in deps if is_vector_func(dep)].
RECURSIVE VectorList(_, _)
VectorList(order, is_vector) ==
    IF order = <<>> THEN <<>>
    ELSE (IF Head(order).name \in is_vector THEN <<Head(order)>> ELSE <<>>)
            \o VectorList(Tail(order), is_vector)

\* Line 81 without its test: every dependency listed as a scalar.
ScalarListUnfiltered(order, is_vector) == order

\* Line 81: [dep for dep in deps if not is_vector_func(dep)].
RECURSIVE ScalarList(_, _)
ScalarList(order, is_vector) ==
    IF order = <<>> THEN <<>>
    ELSE (IF Head(order).name \notin is_vector THEN <<Head(order)>> ELSE <<>>)
            \o ScalarList(Tail(order), is_vector)

\* Lines 82-83: ["v%d" % i for i in range(n)], and the same with "s".
Names(prefix, n) == [i \in 1..n |-> prefix \o ToString(i - 1)]

\* ConstantGatherMapper (lines 48-55): the constants of an expression.
RECURSIVE ConstantGatherMapper(_)
ConstantGatherMapper(e) ==
    IF e.kind = "constant" THEN {e}
    ELSE IF e.kind = "variable" THEN {}
    ELSE UNION {ConstantGatherMapper(e.args[k]) : k \in 1..Len(e.args)}

\* Lines 85-87: numpy.array(const).dtype for the constants of each target
\* expression in turn; the constants here are Python integers.
RECURSIVE ConstantDTypes(_)
ConstantDTypes(ves) ==
    IF ves = <<>> THEN <<>>
    ELSE [k \in 1..Cardinality(ConstantGatherMapper(Head(ves))) |-> "int64"]
            \o ConstantDTypes(Tail(ves))

\* Lines 90-96: subst_map, from each vector dependency to v_k[i] and from
\* each scalar dependency to s_k.
SubstMap(vexprs, vnames, sexprs, snames) ==
    [d \in {vexprs[k] : k \in 1..Len(vexprs)} \cup {sexprs[k] : k \in 1..Len(sexprs)} |->
        IF \E k \in 1..Len(vexprs) : vexprs[k] = d
        THEN Subscript(Variable(vnames[CHOOSE k \in 1..Len(vexprs) : vexprs[k] = d]),
                       Variable("i"))
        ELSE Variable(snames[CHOOSE k \in 1..Len(sexprs) : sexprs[k] = d])]

\* What a mapper call gives when it raised instead of returning.
Raised == [kind |-> "ValueError", name |-> "", args |-> <<>>]

\* Lines 36-42: handle_unsupported_expression.  A node with an entry in the
\* map is replaced; for any other node the handler of pymbolic's base mapper
\* is called, which raises ValueError (and whose result, if it returned,
\* would be dropped: line 41 has no return).
handle_unsupported_expression(e, subst_map) ==
    IF e \in DOMAIN subst_map THEN subst_map[e] ELSE Raised

\* Lines 33-35 and 104: DefaultingSubstitutionMapper(subst_func)(ve).
\* pymbolic's SubstitutionMapper replaces a variable that has an entry and
\* rebuilds every node it has a map method for from its mapped children; a
\* node kind without a map method goes to handle_unsupported_expression.
RECURSIVE DefaultingSubstitutionMapper(_, _)
DefaultingSubstitutionMapper(e, subst_map) ==
    IF e.kind = "variable"
    THEN (IF e \in DOMAIN subst_map THEN subst_map[e] ELSE e)
    ELSE IF e.kind \in {"constant", "numpy_array"} THEN e
    ELSE IF e.kind \in {"sum", "product", "subscript", "cse"}
    THEN LET children == [k \in 1..Len(e.args) |->
                             DefaultingSubstitutionMapper(e.args[k], subst_map)]
         IN IF \E k \in 1..Len(children) : children[k] = Raised
            THEN Raised
            ELSE [e EXCEPT !.args = children]
    ELSE handle_unsupported_expression(e, subst_map)

\* Lines 67-104: the constructor.  The derived fields of lines 80-87 are
\* assigned before the rewrite of line 104, whose ValueError ends the
\* construction.
CompiledVectorExpressionBase ==
    /\ builder_state = "new"
    /\ \E order \in Orderings(Dependencies(vec_exprs)) :
         LET vexprs == VectorList(order, is_vector_func)
             sexprs == ScalarList(order, is_vector_func)
             vnames == Names("v", Len(vexprs))
             snames == Names("s", Len(sexprs))
             subst_map == SubstMap(vexprs, vnames, sexprs, snames)
             rewritten == [k \in 1..Len(vec_exprs) |->
                              DefaultingSubstitutionMapper(vec_exprs[k], subst_map)]
         IN /\ vector_exprs' = vexprs
            /\ scalar_exprs' = sexprs
            /\ vector_names' = vnames
            /\ scalar_names' = snames
            /\ constant_dtypes' = ConstantDTypes(vec_exprs)
            /\ IF \E k \in 1..Len(rewritten) : rewritten[k] = Raised
               THEN /\ builder_state' = "ValueError"
                    /\ exprs' = exprs
               ELSE /\ builder_state' = "built"
                    /\ exprs' = rewritten
    /\ UNCHANGED <<vec_exprs, is_vector_func, result_dtype_getter, kernel_memo, compiles>>
    /\ UNCHANGED callerVars
    /\ UNCHANGED notBuilder

----------------------------------------------------------------------------
\* CompiledVectorExpressionBase.get_kernel (vector_expr.py lines 108-149)

\* pymbolic's CCodeMapper (lines 124-125) applied to one expression, given
\* the common subexpressions met so far.  The code of a node is the node
\* itself with every common-subexpression wrapper replaced by the name of
\* its binding; a wrapper met for the first time appends its child's code
\* to the mapper's cses list.  A node kind without a map method raises.
RECURSIVE code_mapper(_, _)
code_mapper(e, cses) ==
    IF e.kind \in {"variable", "constant"}
    THEN [ok |-> TRUE, code |-> e, cses |-> cses]
    ELSE IF e.kind \in {"sum", "product", "subscript"}
    THEN LET left == code_mapper(e.args[1], cses)
             right == code_mapper(e.args[2], left.cses)
         IN [ok |-> left.ok /\ right.ok,
             code |-> [e EXCEPT !.args = <<left.code, right.code>>],
             cses |-> right.cses]
    ELSE IF e.kind = "cse"
    THEN IF \E k \in 1..Len(cses) : cses[k].expr = e
         THEN [ok |-> TRUE,
               code |-> Variable("_cse" \o ToString(
                            (CHOOSE k \in 1..Len(cses) : cses[k].expr = e) - 1)),
               cses |-> cses]
         ELSE LET child == code_mapper(e.args[1], cses)
              IN [ok |-> child.ok,
                  code |-> Variable("_cse" \o ToString(Len(child.cses))),
                  cses |-> Append(child.cses, [expr |-> e, code |-> child.code])]
    ELSE [ok |-> FALSE, code |-> Raised, cses |-> cses]

\* Line 125: expr_codes, the mapper applied to the rewritten expressions in
\* turn, from the given one on.
RECURSIVE ExprCodes(_, _, _)
ExprCodes(es, k, sofar) ==
    IF k > Len(es) THEN sofar
    ELSE LET this == code_mapper(es[k], sofar.cses)
         IN ExprCodes(es, k + 1,
                      [ok |-> sofar.ok /\ this.ok,
                       codes |-> Append(sofar.codes, this.code),
                       cses |-> this.cses])

\* Lines 126-134: code_lines, the bindings of the common subexpressions
\* followed by the result assignments.
CodeLines(coded) ==
    [k \in 1..Len(coded.cses) |->
        [lhs |-> "_cse" \o ToString(k - 1), rhs |-> coded.cses[k].code]]
    \o [k \in 1..Len(coded.codes) |->
        [lhs |-> "_result" \o ToString(k - 1) \o "[i]", rhs |-> coded.codes[k]]]

\* result_dtype_getter for a key it accepts.
ResultDType(key) ==
    IF "float64" \in {key[1], key[2]} THEN "float64" ELSE "float32"

\* Lines 113-149 for one key: what the method raises, or "KernelRecord".
\* result_dtype_getter can reject the key (line 115); the code mapper can
\* meet a node it has no method for (line 125); a non-empty cses list makes
\* line 128 call get_c_declarator, a name the module never binds.
GetKernelOutcome(es, rejected, key) ==
    LET coded == ExprCodes(es, 1, [ok |-> TRUE, codes |-> <<>>, cses |-> <<>>])
    IN IF key \in rejected THEN "TypeError"
       ELSE IF ~coded.ok THEN "ValueError"
       ELSE IF coded.cses # <<>> THEN "NameError"
       ELSE "KernelRecord"

\* Lines 147-149: the KernelRecord of a call that succeeds.
KernelRecord(id, es, key) ==
    [id |-> id, result_dtype |-> ResultDType(key),
     code |-> CodeLines(ExprCodes(es, 1, [ok |-> TRUE, codes |-> <<>>, cses |-> <<>>]))]

KernelOutcome(key, kind, id) ==
    [method |-> "get_kernel", key |-> key, rec |-> id, kind |-> kind]

\* The make_kernel_internal runs so far: the identity of the next record.
Compiled == LET RECURSIVE SumOver(_)
                SumOver(K) == IF K = {} THEN 0
                              ELSE LET k == CHOOSE k \in K : TRUE
                                   IN compiles[k] + SumOver(K \ {k})
            IN SumOver(Keys)

\* A caller begins get_kernel(vector_dtypes, scalar_dtypes) on the builder.
CallGetKernel ==
    \E t \in DOMAIN caller :
        /\ builder_state = "built"
        /\ caller[t].pc = "idle"
        /\ CallsBegun < MaxCalls
        /\ \E key \in Keys :
             caller' = [caller EXCEPT ![t] = [pc |-> "lookup", method |-> "get_kernel",
                                              key |-> key, rec |-> 0]]
        /\ UNCHANGED <<log, builderVars>>
        /\ UNCHANGED notBuilder

\* Line 108, the wrapper's lookup: a hit returns the cached KernelRecord.
KernelLookup ==
    \E t \in DOMAIN caller :
        /\ caller[t].pc = "lookup"
        /\ caller[t].method = "get_kernel"
        /\ IF memoize_hit(kernel_memo, caller[t].key)
           THEN /\ log' = Append(log, KernelOutcome(caller[t].key, "record",
                                                    kernel_memo[caller[t].key].id))
                /\ caller' = [caller EXCEPT ![t] = NotCalling]
           ELSE /\ caller' = [caller EXCEPT ![t].pc = "compute"]
                /\ log' = log
        /\ UNCHANGED builderVars
        /\ UNCHANGED notBuilder

\* Lines 109-149: the method body; an exception leaves through the wrapper.
KernelCompute ==
    \E t \in DOMAIN caller :
        /\ caller[t].pc = "compute"
        /\ caller[t].method = "get_kernel"
        /\ LET key == caller[t].key
               kind == GetKernelOutcome(exprs, result_dtype_getter, key)
           IN IF kind = "KernelRecord"
              THEN /\ compiles' = [compiles EXCEPT ![key] = @ + 1]
                   /\ caller' = [caller EXCEPT ![t].pc = "store",
                                               ![t].rec = Compiled + 1]
                   /\ UNCHANGED <<log, kernel_memo>>
              ELSE /\ log' = Append(log, KernelOutcome(key, kind, 0))
                   /\ caller' = [caller EXCEPT ![t] = NotCalling]
                   /\ kernel_memo' = memoize_failure(kernel_memo, key)
                   /\ compiles' = compiles
        /\ UNCHANGED <<vec_exprs, is_vector_func, result_dtype_getter, builder_state,
                       derivedVars>>
        /\ UNCHANGED notBuilder

\* Line 108, the wrapper's store, and the return of the new KernelRecord.
KernelStore ==
    \E t \in DOMAIN caller :
        /\ caller[t].pc = "store"
        /\ caller[t].method = "get_kernel"
        /\ kernel_memo' = memoize_store(kernel_memo, caller[t].key,
                                        KernelRecord(caller[t].rec, exprs, caller[t].key))
        /\ log' = Append(log, KernelOutcome(caller[t].key, "record", caller[t].rec))
        /\ caller' = [caller EXCEPT ![t] = NotCalling]
        /\ UNCHANGED <<vec_exprs, is_vector_func, result_dtype_getter, builder_state,
                       derivedVars, compiles>>
        /\ UNCHANGED notBuilder

\* One builder and one caller at a time.
InitBuilder ==
    /\ DiffIdle
    /\ SearchIdle
    /\ GivenIdle
    /\ PlanIdle
    /\ caller = [t \in {1} |-> NotCalling]
    /\ log = <<>>
    /\ vec_exprs \in TargetLists
    /\ is_vector_func \in Classifiers
    /\ result_dtype_getter \in Rejections
    /\ builder_state = "new"
    /\ vector_exprs = <<>>
    /\ scalar_exprs = <<>>
    /\ vector_names = <<>>
    /\ scalar_names = <<>>
    /\ constant_dtypes = <<>>
    /\ exprs = <<>>
    /\ kernel_memo = NoCache
    /\ compiles = [k \in Keys |-> 0]

NextBuilder ==
    CompiledVectorExpressionBase \/ CallGetKernel \/ KernelLookup
        \/ KernelCompute \/ KernelStore

SpecBuilder == InitBuilder /\ [][NextBuilder]_vars

\* A plan and a builder whose classifier accepts every dependency and whose
\* result_dtype_getter accepts every key, and MaxCallers callers running at
\* the same time.
InitConcurrent ==
    /\ DiffIdle
    /\ SearchIdle
    /\ GivenIdle
    /\ caller = [t \in 1..MaxCallers |-> NotCalling]
    /\ log = <<>>
    /\ plan_live = TRUE
    /\ plan_raises \in BOOLEAN
    /\ occ_memo = NoCache
    /\ occ_computations = 0
    /\ vec_exprs \in TargetLists
    /\ is_vector_func = {"a", "b", "c"}
    /\ result_dtype_getter = {}
    /\ builder_state = "new"
    /\ vector_exprs = <<>>
    /\ scalar_exprs = <<>>
    /\ vector_names = <<>>
    /\ scalar_names = <<>>
    /\ constant_dtypes = <<>>
    /\ exprs = <<>>
    /\ kernel_memo = NoCache
    /\ compiles = [k \in Keys |-> 0]

NextConcurrent == NextPlanCalls \/ NextBuilder

SpecConcurrent == InitConcurrent /\ [][NextConcurrent]_vars

----------------------------------------------------------------------------
\* Helpers

\* target_func benchmarking a plan without building its kernel.
benchmark_without_kernel(made, plan) == made

\* Lines 386-387 and 448-449: target_func(plan) is
\* plan.make_kernel(discr).benchmark(); the make_kernel calls after it.
make_kernel(made, plan) == Append(made, plan)

\* ExecutionPlan.occupancy_record: the record, or the ValueError of
\* pycuda's OccupancyRecord.
OccupancyRaises(p) == gen[p].raises
Occupancy(p) == gen[p].occupancy

\* invalid_reason with the ValueError swallowed: every plan reports None.
invalid_reason_swallowed(p) == None

\* ExecutionPlan.invalid_reason: None when occupancy_record() succeeds, the
\* text of the ValueError otherwise.
invalid_reason(p) == IF OccupancyRaises(p) THEN "ValueError text" ELSE None

\* The list comprehension of line 63.
RECURSIVE FeasibleFrom(_)
FeasibleFrom(k) ==
    IF k > Len(gen) THEN <<>>
    ELSE IF invalid_reason(k) = None THEN <<k>> \o FeasibleFrom(k + 1)
    ELSE FeasibleFrom(k + 1)
FeasiblePlans == FeasibleFrom(1)

\* pytools.argmax2 over a sequence of <<arg, item>> pairs: the first pair starts
\* as the current one and a later pair replaces it only if strictly larger.
RECURSIVE ArgMax2FromLast(_, _, _, _)
ArgMax2FromLast(s, k, cur_arg, cur_max) ==
    IF k > Len(s) THEN cur_arg
    ELSE IF s[k][2] >= cur_max THEN ArgMax2FromLast(s, k + 1, s[k][1], s[k][2])
    ELSE ArgMax2FromLast(s, k + 1, cur_arg, cur_max)

RECURSIVE ArgMax2From(_, _, _, _)
ArgMax2From(s, k, cur_arg, cur_max) ==
    IF k > Len(s) THEN cur_arg
    ELSE IF s[k][2] > cur_max THEN ArgMax2From(s, k + 1, s[k][1], s[k][2])
    ELSE ArgMax2From(s, k + 1, cur_arg, cur_max)
ArgMax2(s) == ArgMax2From(s, 2, s[1][1], s[1][2])

\* pytools.argmin2, likewise with strictly smaller.
RECURSIVE ArgMin2From(_, _, _, _)
ArgMin2From(s, k, cur_arg, cur_min) ==
    IF k > Len(s) THEN cur_arg
    ELSE IF s[k][2] < cur_min THEN ArgMin2From(s, k + 1, s[k][1], s[k][2])
    ELSE ArgMin2From(s, k + 1, cur_arg, cur_min)
ArgMin2(s) == ArgMin2From(s, 2, s[1][1], s[1][2])

\* max(plan.occupancy_record().occupancy for plan in plans), line 79.
RECURSIVE MaxOccupancyFrom(_, _, _)
MaxOccupancyFrom(pl, k, cur) ==
    IF k > Len(pl) THEN cur
    ELSE IF Occupancy(pl[k]) > cur THEN MaxOccupancyFrom(pl, k + 1, Occupancy(pl[k]))
    ELSE MaxOccupancyFrom(pl, k + 1, cur)
MaxOccupancy(pl) == MaxOccupancyFrom(pl, 2, Occupancy(pl[1]))

\* The pruning test of line 113 as a strict comparison without tolerance.
PassesSlackStrictly(occ, desired) == occ * SlackScale > desired

\* The pruning test of line 113: occupancy >= desired_occup - 1e-10.
PassesSlack(occ, desired) == occ * SlackScale >= desired - Epsilon * SlackScale

\* The test of line 74 with the per-name token forgotten.
NoPlanSearchGlobalOnly(flags) == NoPlanToken \in flags

\* The test of line 74 reading the no-progress token for the global one.
NoPlanSearchReadsNoProgress(flags) ==
    ({NoProgressToken, NoPlanNameToken} \cap flags) # {}

\* The test of line 74.
NoPlanSearchRequested(flags) == ({NoPlanToken, NoPlanNameToken} \cap flags) # {}

\* Lines 68-69 left out: the log filename is kept whatever the flags.
KeepLogFilename(flags, name) == name

\* Lines 68-69: without the log token the log filename is dropped.
EffectiveLogFilename(flags, name) == IF LogToken \notin flags THEN None ELSE name

\* isinstance(value, tuple), value[0] and value[1:] of lines 118-122.
IsTuple(r) == r.kind \in {"tuple", "tuple_none"}
ValueIsNone(r) == r.kind \in {"none", "tuple_none"}

----------------------------------------------------------------------------
\* The call optimize_plan(OptName, plan_generator, target_func, maximize,
\* debug_flags, occupancy_slack, log_filename)

Init ==
    /\ DiffIdle
    /\ args \in [maximize : BOOLEAN, debug_flags : SUBSET Tokens,
                 occupancy_slack : Slacks, log_filename : LogNames]
    /\ gen \in UNION {[1..n -> PlanKinds] : n \in 0..MaxPlans}
    /\ target_func = [p \in 1..Len(gen) |-> Uncalled]
    /\ pc = "start"
    /\ plans = <<>>
    /\ debug = FALSE
    /\ show_progress = FALSE
    /\ log_filename = args.log_filename
    /\ max_occup = 0
    /\ desired_occup = 0
    /\ idx = 0
    /\ plan_values = <<>>
    /\ calls = <<>>
    /\ kernels_made = <<>>
    /\ db_conn = "none"
    /\ db_rows = <<>>
    /\ pbar = "none"
    /\ pbar_steps = 0
    /\ printed = 0
    /\ outcome = "running"
    /\ result = NoResult
    /\ run = 1
    /\ first = [calls |-> <<>>, outcome |-> "running", result |-> NoResult,
                log_filename |-> None, debug_flags |-> {}]
    /\ GivenIdle
    /\ CallersIdle
    /\ PlanIdle
    /\ BuilderIdle

\* Lines 63-69: realize the generator, keep the feasible plans, read the flags.
Filter ==
    /\ pc = "start"
    /\ plans' = FeasiblePlans
    /\ debug' = (TraceToken \in args.debug_flags)
    /\ show_progress' = ((NoProgressToken \notin args.debug_flags) /\ ~debug')
    /\ log_filename' = EffectiveLogFilename(args.debug_flags, args.log_filename)
    /\ pc' = "check"
    /\ UNCHANGED <<args, gen, target_func, max_occup, desired_occup, idx, plan_values,
                   calls, kernels_made, db_conn, db_rows, pbar, pbar_steps, printed, outcome,
                   result, run, first>>
    /\ UNCHANGED notSearch

\* Lines 71-72 returning an empty result instead of raising.
NoPlansSilent ==
    /\ pc = "check"
    /\ plans = <<>>
    /\ outcome' = "returned"
    /\ pc' = "done"
    /\ UNCHANGED <<args, gen, target_func, plans, debug, show_progress, log_filename,
                   max_occup, desired_occup, idx, plan_values, calls, kernels_made, db_conn,
                   db_rows, pbar, pbar_steps, printed, result, run, first>>
    /\ UNCHANGED notSearch

\* Lines 71-72: no feasible plan.
NoPlans ==
    /\ pc = "check"
    /\ plans = <<>>
    /\ outcome' = "RuntimeError"
    /\ pc' = "done"
    /\ UNCHANGED <<args, gen, target_func, plans, debug, show_progress, log_filename,
                   max_occup, desired_occup, idx, plan_values, calls, kernels_made, db_conn,
                   db_rows, pbar, pbar_steps, printed, result, run, first>>
    /\ UNCHANGED notSearch

\* Lines 74-77: the no-plan-search short circuit.
NoPlanSearch ==
    /\ pc = "check"
    /\ plans # <<>>
    /\ NoPlanSearchRequested(args.debug_flags)
    /\ IF \E k \in 1..Len(plans) : OccupancyRaises(plans[k])
       THEN /\ outcome' = "ValueError"
            /\ result' = result
       ELSE /\ outcome' = "returned"
            /\ result' = <<ArgMax2([k \in 1..Len(plans) |->
                                     <<plans[k], Occupancy(plans[k])>>]), 0>>
    /\ pc' = "done"
    /\ UNCHANGED <<args, gen, target_func, plans, debug, show_progress, log_filename,
                   max_occup, desired_occup, idx, plan_values, calls, kernels_made, db_conn,
                   db_rows, pbar, pbar_steps, printed, run, first>>
    /\ UNCHANGED notSearch

\* Lines 79-108: the occupancy bound, the log store, the progress bar.
Prepare ==
    /\ pc = "check"
    /\ plans # <<>>
    /\ ~NoPlanSearchRequested(args.debug_flags)
    /\ IF \E k \in 1..Len(plans) : OccupancyRaises(plans[k])
       THEN /\ outcome' = "ValueError"
            /\ pc' = "done"
            /\ UNCHANGED <<max_occup, desired_occup, db_conn, pbar, idx, plan_values>>
       ELSE /\ max_occup' = MaxOccupancy(plans)
            /\ desired_occup' = args.occupancy_slack * max_occup'
            /\ db_conn' = IF log_filename # None THEN "open" ELSE db_conn
            /\ pbar' = IF show_progress THEN "active" ELSE pbar
            /\ plan_values' = <<>>
            /\ idx' = 1
            /\ pc' = "loop"
            /\ outcome' = outcome
    /\ UNCHANGED <<args, gen, target_func, plans, debug, show_progress, log_filename,
                   calls, kernels_made, db_rows, pbar_steps, printed, result, run, first>>
    /\ UNCHANGED notSearch

\* Lines 109-137: one iteration of the scan over plans; a TypeError from
\* p.features(*extra_info) with extra_info None leaves through the finally clause.
Iterate ==
    /\ pc = "loop"
    /\ idx <= Len(plans)
    /\ LET p == plans[idx] IN
       /\ pbar_steps' = IF show_progress THEN pbar_steps + 1 ELSE pbar_steps
       /\ IF PassesSlack(Occupancy(p), desired_occup)
          THEN \E value \in (IF target_func[p] = Uncalled THEN BenchResults ELSE {target_func[p]}) :
                 /\ target_func' = [target_func EXCEPT ![p] = value]
                 /\ calls' = Append(calls, p)
                 /\ kernels_made' = make_kernel(kernels_made, p)
                 /\ IF ValueIsNone(value)
                    THEN /\ printed' = IF debug THEN printed + 1 ELSE printed
                         /\ UNCHANGED <<plan_values, db_rows, outcome, pbar>>
                         /\ idx' = idx + 1
                         /\ pc' = "loop"
                    ELSE /\ printed' = IF debug THEN printed + 2 ELSE printed
                         /\ plan_values' = Append(plan_values,
                                                  <<<<Len(plan_values), p>>, value.cost>>)
                         /\ IF log_filename # None /\ ~IsTuple(value)
                            THEN /\ outcome' = "TypeError"
                                 /\ pbar' = IF show_progress THEN "finished" ELSE pbar
                                 /\ pc' = "done"
                                 /\ UNCHANGED <<db_rows, idx>>
                            ELSE /\ db_rows' = IF log_filename # None
                                               THEN Append(db_rows, <<p, value.cost>>)
                                               ELSE db_rows
                                 /\ idx' = idx + 1
                                 /\ pc' = "loop"
                                 /\ UNCHANGED <<outcome, pbar>>
          ELSE /\ idx' = idx + 1
               /\ pc' = "loop"
               /\ UNCHANGED <<target_func, calls, kernels_made, plan_values, db_rows, printed, outcome, pbar>>
    /\ UNCHANGED <<args, gen, plans, debug, show_progress, log_filename, max_occup,
                   desired_occup, db_conn, result, run, first>>
    /\ UNCHANGED notSearch

\* Lines 135-156: end of the scan, commit, select the extremal entry, return.
Select ==
    /\ pc = "loop"
    /\ idx > Len(plans)
    /\ pbar' = IF show_progress THEN "finished" ELSE pbar
    /\ db_conn' = IF log_filename # None THEN "committed" ELSE db_conn
    /\ IF plan_values = <<>>
       THEN /\ outcome' = "ValueError"
            /\ UNCHANGED <<result, printed>>
       ELSE LET chosen == IF args.maximize THEN ArgMax2(plan_values)
                          ELSE ArgMin2(plan_values)
                num_plan == chosen[1]
                plan == chosen[2]
                plan_value == plan_values[num_plan + 1][2]
            IN /\ result' = <<plan, plan_value>>
               /\ outcome' = "returned"
               /\ printed' = IF debug THEN printed + 4 ELSE printed
    /\ pc' = "done"
    /\ UNCHANGED <<args, gen, target_func, plans, debug, show_progress, log_filename,
                   max_occup, desired_occup, idx, plan_values, calls, kernels_made, db_rows,
                   pbar_steps, run, first>>
    /\ UNCHANGED notSearch

Next == Filter \/ NoPlans \/ NoPlanSearch \/ Prepare \/ Iterate \/ Select

Spec == Init /\ [][Next]_vars

----------------------------------------------------------------------------
\* A second call of optimize_plan with the same plans, the same target_func
\* (target_func keeps what it returned), the same maximize and occupancy_slack, and
\* debug flags that are the first call's or the first call's without the
\* no-progress and trace tokens; the log filename is the first call's or None.
\* (Two calls whose flags differ only in those two tokens have the same call
\* without them as their second call, so agreeing with the second call makes
\* them agree with each other.)

DisplayTokens == {NoProgressToken, TraceToken}

Rerun ==
    /\ pc = "done"
    /\ run = 1
    /\ \E flags \in {args.debug_flags, args.debug_flags \ DisplayTokens},
          name \in {args.log_filename, None} :
         /\ <<flags, name>> # <<args.debug_flags, args.log_filename>>
         /\ args' = [args EXCEPT !.debug_flags = flags, !.log_filename = name]
         /\ log_filename' = name
    /\ first' = [calls |-> calls, outcome |-> outcome, result |-> result,
                 log_filename |-> args.log_filename,
                 debug_flags |-> args.debug_flags]
    /\ run' = 2
    /\ pc' = "start"
    /\ plans' = <<>>
    /\ debug' = FALSE
    /\ show_progress' = FALSE
    /\ max_occup' = 0
    /\ desired_occup' = 0
    /\ idx' = 0
    /\ plan_values' = <<>>
    /\ calls' = <<>>
    /\ kernels_made' = <<>>
    /\ db_conn' = "none"
    /\ pbar' = "none"
    /\ pbar_steps' = 0
    /\ printed' = 0
    /\ outcome' = "running"
    /\ result' = NoResult
    /\ UNCHANGED <<gen, target_func, db_rows>>
    /\ UNCHANGED notSearch

NextTwin == Next \/ Rerun

SpecTwin == Init /\ [][NextTwin]_vars

----------------------------------------------------------------------------
\* make_diff_plan.generate_plans (plan.py lines 356-384), one action per
\* plan yielded.

\* Python 2's range(start, stop, step) for a positive step, as a sequence.
range(start, stop, step) ==
    [i \in 1..(IF stop > start THEN (stop - start + step - 1) \div step ELSE 0)
        |-> start + (i - 1) * step]

\* Python's == on the values an argument can hold.
py_eq(a, b) == a = b

\* Lines 45-48.
Parallelism(parallel, in_line, serial) ==
    [parallel |-> parallel, inline |-> in_line, serial |-> serial]

\* Lines 357-359.
segment_sizes ==
    range(given.microblock.align_size,
          given.microblock.elements * given.dofs_per_el + 1,
          given.microblock.align_size)

\* Lines 362-365.  The second operand of line 363 is the attribute
\* given.dofs_per_el, a bound method: the method is not called.
smem_matrix_wanted ==
    /\ "cuda_no_smem_matrix" \notin discr_debug
    /\ py_eq(image_dofs_per_el, PyBoundMethod("dofs_per_el"))
    /\ aligned_image_dofs_per_microblock = given.microblock.aligned_floats

\* Lines 370-373: diff_shared_segmat.ExecutionPlan(given, parallelism,
\* segment_size, max_unroll).
SSegPlan(g, parallelism, segment_size, max_unroll) ==
    [kind |-> "seg_matrix", given |-> g, parallelism |-> parallelism,
     segment_size |-> segment_size, max_unroll |-> max_unroll]

\* Lines 379-384: diff_shared_fld.ExecutionPlan(given, parallelism, ...).
SFieldPlan(g, parallelism, aligned_preimage, preimage, aligned_image, image) ==
    [kind |-> "shared_field", given |-> g, parallelism |-> parallelism,
     aligned_preimage_dofs_per_microblock |-> aligned_preimage,
     preimage_dofs_per_el |-> preimage,
     aligned_image_dofs_per_microblock |-> aligned_image,
     image_dofs_per_el |-> image]

\* The arguments: an image with the element's DOF count or with a larger
\* one, or the accessor itself in place of a count; an image microblock as
\* wide as the given one or twice as wide.
InitDiffPlans ==
    /\ SearchIdle
    /\ GivenIdle
    /\ CallersIdle
    /\ PlanIdle
    /\ BuilderIdle
    /\ discr_debug \in DebugFlagSets
    /\ given \in DiffGivens
    /\ aligned_preimage_dofs_per_microblock = given.microblock.aligned_floats
    /\ preimage_dofs_per_el = PyInt(given.dofs_per_el)
    /\ aligned_image_dofs_per_microblock \in
           {given.microblock.aligned_floats, 2 * given.microblock.aligned_floats}
    /\ image_dofs_per_el \in
           {PyInt(given.dofs_per_el), PyInt(given.dofs_per_el + 2),
            PyBoundMethod("dofs_per_el")}
    /\ generator_pc = "start"
    /\ pe = 0
    /\ inline = 0
    /\ seq = 0
    /\ segment_index = 0
    /\ yielded = <<>>

\* Lines 357-369 or 357-378: the generator runs up to its first yield.
generate_plans ==
    /\ generator_pc = "start"
    /\ IF smem_matrix_wanted /\ segment_sizes # <<>>
       THEN /\ generator_pc' = "segmat"
            /\ seq' = 1
            /\ segment_index' = 1
       ELSE /\ generator_pc' = "sfield"
            /\ UNCHANGED <<seq, segment_index>>
    /\ pe' = 1
    /\ inline' = 1
    /\ UNCHANGED <<diffArgs, yielded>>
    /\ UNCHANGED notDiff

\* Lines 366-373: one plan of the segmented-matrix loops, then on to the
\* next iteration, innermost loop first.
YieldSSegPlan ==
    /\ generator_pc = "segmat"
    /\ yielded' = Append(yielded,
           SSegPlan(given, Parallelism(pe, inline, seq),
                    segment_sizes[segment_index], given.dofs_per_el))
    /\ IF segment_index < Len(segment_sizes)
       THEN /\ segment_index' = segment_index + 1
            /\ UNCHANGED <<generator_pc, pe, inline, seq>>
       ELSE IF seq < MAX_SEQ
       THEN /\ seq' = seq + 1
            /\ segment_index' = 1
            /\ UNCHANGED <<generator_pc, pe, inline>>
       ELSE IF inline < MAX_INLINE
       THEN /\ inline' = inline + 1
            /\ seq' = 1
            /\ segment_index' = 1
            /\ UNCHANGED <<generator_pc, pe>>
       ELSE IF pe < MAX_PARALLEL
       THEN /\ pe' = pe + 1
            /\ inline' = 1
            /\ seq' = 1
            /\ segment_index' = 1
            /\ UNCHANGED generator_pc
       ELSE /\ generator_pc' = "sfield"
            /\ pe' = 1
            /\ inline' = 1
            /\ UNCHANGED <<seq, segment_index>>
    /\ UNCHANGED diffArgs
    /\ UNCHANGED notDiff

\* Lines 377-384: one plan of the shared-field loops; after the last one the
\* generator is exhausted.
YieldSFieldPlan ==
    /\ generator_pc = "sfield"
    /\ yielded' = Append(yielded,
           SFieldPlan(given, Parallelism(pe, inline, 1),
                      aligned_preimage_dofs_per_microblock, preimage_dofs_per_el,
                      aligned_image_dofs_per_microblock, image_dofs_per_el))
    /\ IF inline < MAX_INLINE
       THEN /\ inline' = inline + 1
            /\ UNCHANGED <<generator_pc, pe>>
       ELSE IF pe < MAX_PARALLEL
       THEN /\ pe' = pe + 1
            /\ inline' = 1
            /\ UNCHANGED generator_pc
       ELSE /\ generator_pc' = "exhausted"
            /\ UNCHANGED <<pe, inline>>
    /\ UNCHANGED <<diffArgs, seq, segment_index>>
    /\ UNCHANGED notDiff

NextDiffPlans == generate_plans \/ YieldSSegPlan \/ YieldSFieldPlan

SpecDiffPlans == InitDiffPlans /\ [][NextDiffPlans]_vars

----------------------------------------------------------------------------
\* Vocabulary of the properties, stated on the inputs of the call

Range(s) == {s[k] : k \in 1..Len(s)}

\* The plans whose occupancy computation succeeds.
Feasible == {p \in 1..Len(gen) : ~gen[p].raises}

\* A no-plan-search flag is set.
NoPlanFlagSet ==
    NoPlanToken \in args.debug_flags \/ NoPlanNameToken \in args.debug_flags

\* Logging is enabled: the log token is set and a log filename was passed.
LoggingEnabled == LogToken \in args.debug_flags /\ args.log_filename # None

\* The largest occupancy of a feasible plan.
MaxFeasibleOccupancy ==
    CHOOSE m \in {gen[p].occupancy : p \in Feasible} :
        \A q \in Feasible : gen[q].occupancy <= m

\* occupancy >= occupancy_slack * max_occupancy - 1e-10
WithinSlack(p) ==
    gen[p].occupancy * SlackScale
        >= args.occupancy_slack * MaxFeasibleOccupancy - Epsilon * SlackScale

\* The plans target_func was called on and gave a cost for.
Costed == {p \in Range(calls) : target_func[p].kind \in {"scalar", "tuple"}}

\* The plans target_func was called on and declined.
Declined == {p \in Range(calls) : target_func[p].kind \in {"none", "tuple_none"}}

\* One row <<plan, cost>> per costed call, in call order.
RECURSIVE RowsOf(_)
RowsOf(cs) ==
    IF cs = <<>> THEN <<>>
    ELSE IF target_func[Head(cs)].kind \in {"scalar", "tuple"}
         THEN <<<<Head(cs), target_func[Head(cs)].cost>>>> \o RowsOf(Tail(cs))
         ELSE RowsOf(Tail(cs))

----------------------------------------------------------------------------
\* Properties

\* C1: with at least one feasible plan and no no-plan flag, a finished call has
\* returned a pair (plan, cost) whose plan is one the generator produced and
\* whose cost is the scalar cost target_func produced for exactly that plan.
C1_ReturnsBenchmarkedPlan ==
    (pc = "done" /\ Feasible # {} /\ ~NoPlanFlagSet)
        => /\ outcome = "returned"
           /\ result[1] \in 1..Len(gen)
           /\ target_func[result[1]].kind \in {"scalar", "tuple"}
           /\ result[2] = target_func[result[1]].cost

\* C2: when no plan is feasible (or the generator yields none), whatever the
\* debug flags, target_func is never called, nothing is returned, the call
\* never enters the scan, the raise is the only step left to it and a
\* finished call has raised RuntimeError.
C2_NoFeasiblePlanFails ==
    (Feasible = {})
        => /\ calls = <<>>
           /\ \A p \in 1..Len(gen) : target_func[p] = Uncalled
           /\ result = NoResult
           /\ pc \in {"start", "check", "done"}
           /\ outcome \in {"running", "RuntimeError"}
           /\ (pc = "check" => ENABLED NoPlans)
           /\ (pc = "done" => outcome = "RuntimeError")

\* C2 witness: two infeasible plans, the global no-plan token set, the call
\* has failed.
C2_Witness ==
    /\ pc = "done"
    /\ Len(gen) = 2
    /\ Feasible = {}
    /\ NoPlanToken \in args.debug_flags
    /\ outcome = "RuntimeError"

\* C3: in a finished call without a no-plan flag, target_func was called on a
\* feasible plan if and only if the plan's occupancy is
\* >= occupancy_slack * max_occupancy - 1e-10.
C3_BenchmarkedIffWithinSlack ==
    (pc = "done" /\ Feasible # {} /\ ~NoPlanFlagSet)
        => Range(calls) = {p \in Feasible : WithinSlack(p)}

\* C3, the half that holds in every state of every call: target_func is only
\* ever called on feasible plans within the slack bound, each at most once
\* and in generator order.
C3_OnlyWithinSlackBenchmarked ==
    /\ (Feasible # {} /\ ~NoPlanFlagSet)
           => Range(calls) \subseteq {p \in Feasible : WithinSlack(p)}
    /\ \A j, k \in 1..Len(calls) : j < k => calls[j] < calls[k]

\* C3, the other half in the calls that run the scan to its end: every
\* feasible plan within the bound has been benchmarked.
C3_ScanBenchmarksAllWithinSlack ==
    (pc = "done" /\ Feasible # {} /\ ~NoPlanFlagSet /\ outcome # "TypeError")
        => Range(calls) = {p \in Feasible : WithinSlack(p)}

\* C4: whenever the search returns, the returned plan is one that was
\* benchmarked with a cost (not None), the returned cost is that plan's cost, no
\* costed plan has a larger (maximize) or smaller (not maximize) cost, and
\* among the costed plans with the same cost it is the first in generator order.
C4_ExtremalFirst ==
    (outcome = "returned" /\ ~NoPlanFlagSet)
        => /\ result[1] \in Costed
           /\ result[2] = target_func[result[1]].cost
           /\ \A q \in Costed :
                /\ args.maximize => target_func[q].cost <= result[2]
                /\ ~args.maximize => target_func[q].cost >= result[2]
                /\ target_func[q].cost = result[2] => q >= result[1]

\* C4 witness: maximize, two costed plans with equal cost, the first returned.
C4_Witness ==
    /\ outcome = "returned"
    /\ ~NoPlanFlagSet
    /\ args.maximize
    /\ Costed = {1, 2}
    /\ target_func[1].cost = target_func[2].cost
    /\ result[1] = 1

\* C5: with the global or the per-name no-plan token and a feasible plan, a
\* finished call has returned, with cost 0, a feasible plan of maximum
\* occupancy, the first such plan in generator order; and target_func is
\* never called while such a token is set.
C5_NoPlanSearchShortCircuit ==
    NoPlanFlagSet
        => /\ calls = <<>>
           /\ \A p \in 1..Len(gen) : target_func[p] = Uncalled
           /\ (pc = "done" /\ Feasible # {})
                => /\ outcome = "returned"
                   /\ result[2] = 0
                   /\ result[1] \in Feasible
                   /\ \A q \in Feasible :
                        /\ gen[q].occupancy <= gen[result[1]].occupancy
                        /\ gen[q].occupancy = gen[result[1]].occupancy
                               => q >= result[1]

\* C5 witness: only the per-name token, two feasible plans of equal occupancy,
\* the first returned with cost 0.
C5_Witness ==
    /\ pc = "done"
    /\ args.debug_flags = {NoPlanNameToken}
    /\ Feasible = {1, 2}
    /\ gen[1].occupancy = gen[2].occupancy
    /\ outcome = "returned"
    /\ result = <<1, 0>>

\* C6: invalid_reason() is not None exactly for the plans whose occupancy
\* computation raises ValueError; past line 63 plans holds no such plan, and
\* no such plan is ever passed to target_func or returned.
C6_InfeasibleExcluded ==
    /\ \A p \in 1..Len(gen) : (invalid_reason(p) # None) <=> gen[p].raises
    /\ pc # "start" => Range(plans) = Feasible
    /\ Range(calls) \subseteq Feasible
    /\ outcome = "returned" => result[1] \in Feasible

\* C6 witness: an infeasible plan was generated, a feasible one was
\* benchmarked and returned.
C6_Witness ==
    /\ pc = "done"
    /\ outcome = "returned"
    /\ \E p \in 1..Len(gen) : gen[p].raises
    /\ calls # <<>>
    /\ result[1] \in Range(calls)

\* C7: a plan for which target_func returns None (or a tuple starting with
\* None) is excluded and no error reaches the caller: the call returns a pair,
\* whose plan did not decline, for every pattern of declines.  Stated for the
\* calls that do not log.
C7_DeclinesNeverSurface ==
    (pc = "done" /\ Feasible # {} /\ ~NoPlanFlagSet /\ ~LoggingEnabled
       /\ Declined # {})
        => /\ outcome = "returned"
           /\ result[1] \notin Declined

\* C7, the part that holds: a plan that declined is never in plan_values,
\* never logged and never returned.
C7_DeclinedExcluded ==
    /\ \A k \in 1..Len(plan_values) : plan_values[k][1][2] \notin Declined
    /\ \A k \in 1..Len(db_rows) : db_rows[k][1] \notin Declined
    /\ outcome = "returned" /\ ~NoPlanFlagSet => result[1] \notin Declined

\* C8: with logging enabled, a finished search has returned normally, the
\* log holds exactly one committed row (plan features, cost) per benchmarked
\* plan with a cost, in order, for scalar and for tuple results alike, and no
\* row for pruned or declined plans.
C8_EveryCostedPlanLogged ==
    (pc = "done" /\ LoggingEnabled /\ ~NoPlanFlagSet /\ Costed # {})
        => /\ outcome = "returned"
           /\ db_rows = RowsOf(calls)
           /\ db_conn = "committed"

\* C8, the part that holds: when every cost came in a tuple, the rows are as
\* claimed.
C8_TupleResultsLogged ==
    (pc = "done" /\ LoggingEnabled /\ ~NoPlanFlagSet /\ Costed # {}
       /\ \A p \in Costed : target_func[p].kind = "tuple")
        => /\ outcome = "returned"
           /\ db_rows = RowsOf(calls)
           /\ db_conn = "committed"

\* C9: without the log token no log store is opened and no row is inserted,
\* whatever log filename was passed, in the first and in the second call; and
\* the second call, whose log filename may be None where the first call's was
\* not, ends as the first did, with the same returned (plan, cost).
C9_NoLogTokenNoLogging ==
    (LogToken \notin args.debug_flags)
        => /\ db_conn = "none"
           /\ db_rows = <<>>
           /\ pc # "start" => log_filename = None
           /\ (run = 2 /\ pc = "done")
                => /\ outcome = first.outcome
                   /\ result = first.result

\* C9 witness: no log token, a first call with a log filename and a second
\* without, both benchmarked and returned.
C9_Witness ==
    /\ run = 2
    /\ pc = "done"
    /\ LogToken \notin args.debug_flags
    /\ first.log_filename # None
    /\ args.log_filename = None
    /\ calls # <<>>
    /\ outcome = "returned"

\* C10: a second call with the same plans, target_func, maximize,
\* occupancy_slack and log filename, and debug flags that differ from the
\* first call's only in the no-progress and trace tokens, calls target_func on
\* the same plans in the same order and ends the same way with the same
\* returned (plan, cost).
C10_DisplayFlagsDoNotMatter ==
    (run = 2 /\ pc = "done" /\ args.log_filename = first.log_filename)
        => /\ args.debug_flags \ DisplayTokens = first.debug_flags \ DisplayTokens
           /\ calls = first.calls
           /\ outcome = first.outcome
           /\ result = first.result

\* C10 witness: the first call had both display tokens and the second none;
\* both benchmarked two plans and returned.
C10_Witness ==
    /\ run = 2
    /\ pc = "done"
    /\ args.log_filename = first.log_filename
    /\ DisplayTokens \subseteq first.debug_flags
    /\ args.debug_flags \cap DisplayTokens = {}
    /\ Len(calls) = 2
    /\ outcome = "returned"

----------------------------------------------------------------------------
\* Vocabulary of the builder properties

\* The get_kernel calls that have ended, by position in the log.
KernelCalls == {k \in 1..Len(log) : log[k].method = "get_kernel"}

\* The get_kernel calls that returned a KernelRecord, and those that raised.
Succeeded == {k \in KernelCalls : log[k].kind = "record"}
Failed == {k \in KernelCalls : log[k].kind # "record"}

\* C11: on one builder called by one caller at a time, two successful
\* get_kernel calls with the same (vector_dtypes, scalar_dtypes) return the
\* same KernelRecord, make_kernel_internal runs once for a key that has
\* succeeded, and the entry of a key is never evicted or replaced by a call
\* with another key: the record a call returned is the one the cache holds
\* for its key from then on.
C11_OneKernelPerKey ==
    (builder_state = "built" /\ Cardinality(DOMAIN caller) = 1) =>
        /\ \A j, k \in Succeeded :
             (log[j].key = log[k].key) <=> (log[j].rec = log[k].rec)
        /\ \A k \in Succeeded :
             /\ compiles[log[k].key] = 1
             /\ log[k].key \in DOMAIN kernel_memo
             /\ kernel_memo[log[k].key].id = log[k].rec
        /\ \A key \in Keys : compiles[key] <= 1

\* C11 witness: get_kernel(k1), get_kernel(k2), get_kernel(k1) all succeeded,
\* the third returning the record of the first.
C11_Witness ==
    /\ builder_state = "built"
    /\ Cardinality(DOMAIN caller) = 1
    /\ Len(log) = 3
    /\ Succeeded = {1, 2, 3}
    /\ log[1].key # log[2].key
    /\ log[3].key = log[1].key
    /\ log[3].rec = log[1].rec

\* C12: a get_kernel call that fails gives its caller the error and leaves
\* the cache, the make_kernel_internal counts and the builder's derived
\* fields as they were; no key that failed has a cache entry, and every
\* call that succeeded, before or after a failure, still finds its record.
C12_FailedCallChangesNothing ==
    [][(/\ Cardinality(DOMAIN caller) = 1
        /\ Len(log') = Len(log) + 1
        /\ log'[Len(log')].method = "get_kernel"
        /\ log'[Len(log')].kind # "record")
          => /\ log'[Len(log')].kind \in {"TypeError", "ValueError", "NameError"}
             /\ log'[Len(log')].rec = 0
             /\ kernel_memo' = kernel_memo
             /\ compiles' = compiles
             /\ UNCHANGED <<vector_exprs, scalar_exprs, vector_names, scalar_names,
                            constant_dtypes, exprs>>
             /\ \A k \in Failed' : log'[k].key \notin DOMAIN kernel_memo'
             /\ \A k \in Succeeded' :
                  /\ log'[k].key \in DOMAIN kernel_memo'
                  /\ kernel_memo'[log'[k].key].id = log'[k].rec]_vars

\* C12 witness: a key is compiled, a call with a key the result-dtype
\* function rejects fails, and a later call with the first key returns the
\* record of the first call.
C12_Witness ==
    /\ Cardinality(DOMAIN caller) = 1
    /\ Len(log) = 3
    /\ Succeeded = {1, 3}
    /\ Failed = {2}
    /\ log[2].kind = "TypeError"
    /\ log[3].key = log[1].key
    /\ log[3].rec = log[1].rec
    /\ vector_exprs # <<>>

\* C13: with callers running at the same time, the occupancy computation of
\* a feasible plan and make_kernel_internal for a key of a builder are each
\* executed at most once.
C13_AtMostOnceUnderConcurrency ==
    /\ (plan_live /\ ~plan_raises) => occ_computations <= 1
    /\ \A key \in Keys : compiles[key] <= 1

\* C14: after construction every dependency of the target expressions is in
\* exactly one of vector_exprs and scalar_exprs, once, on the side the
\* classifier puts it, and the names v0.., s0.. are pairwise distinct and
\* given to the entries of the two lists in order.
C14_DependenciesPartitioned ==
    builder_state = "built" =>
        LET deps == Dependencies(vec_exprs)
            names == vector_names \o scalar_names
        IN /\ Range(vector_exprs) \cup Range(scalar_exprs) = deps
           /\ Range(vector_exprs) \cap Range(scalar_exprs) = {}
           /\ Len(vector_exprs) + Len(scalar_exprs) = Cardinality(deps)
           /\ \A d \in Range(vector_exprs) : d.name \in is_vector_func
           /\ \A d \in Range(scalar_exprs) : d.name \notin is_vector_func
           /\ Len(vector_names) = Len(vector_exprs)
           /\ Len(scalar_names) = Len(scalar_exprs)
           /\ \A k \in 1..Len(vector_names) :
                vector_names[k] = "v" \o <<"0", "1", "2", "3">>[k]
           /\ \A k \in 1..Len(scalar_names) :
                scalar_names[k] = "s" \o <<"0", "1", "2", "3">>[k]
           /\ \A j, k \in 1..Len(names) : j # k => names[j] # names[k]

\* C14 witness: a builder with two vector dependencies and a scalar one.
C14_Witness ==
    /\ builder_state = "built"
    /\ Len(vector_exprs) = 2
    /\ Len(scalar_exprs) = 1

\* The operator nodes of an expression, common-subexpression wrappers
\* looked through.
RECURSIVE Unwrapped(_)
Unwrapped(e) ==
    IF e.kind = "cse" THEN Unwrapped(e.args[1])
    ELSE [e EXCEPT !.args = [k \in 1..Len(e.args) |-> Unwrapped(e.args[k])]]

RECURSIVE Operations(_)
Operations(e) ==
    (IF e.kind \in {"sum", "product"} THEN {e} ELSE {})
        \cup UNION {Operations(e.args[k]) : k \in 1..Len(e.args)}

\* The operations that occur in more than one rewritten target expression.
SharedOperations ==
    {op \in UNION {Operations(Unwrapped(exprs[k])) : k \in 1..Len(exprs)} :
        \E j, k \in 1..Len(exprs) :
            /\ j # k
            /\ op \in Operations(Unwrapped(exprs[j]))
            /\ op \in Operations(Unwrapped(exprs[k]))}

\* How many times an expression is written out in a piece of code.
RECURSIVE Occurrences(_, _)
Occurrences(op, code) ==
    LET RECURSIVE InArgs(_)
        InArgs(k) == IF k > Len(code.args) THEN 0
                     ELSE Occurrences(op, code.args[k]) + InArgs(k + 1)
    IN (IF code = op THEN 1 ELSE 0) + InArgs(1)

RECURSIVE EvaluationsFrom(_, _, _)
EvaluationsFrom(op, lines, k) ==
    IF k > Len(lines) THEN 0
    ELSE Occurrences(op, lines[k].rhs) + EvaluationsFrom(op, lines, k + 1)

\* C15: a get_kernel call on a builder whose target expressions share an
\* operation gives a kernel whose body evaluates that operation once.
C15_SharedOperationEvaluatedOnce ==
    (builder_state = "built" /\ SharedOperations # {}) =>
        \A k \in KernelCalls :
            /\ log[k].kind \in {"record", "TypeError"}
            /\ log[k].kind = "record" =>
                 \A op \in SharedOperations :
                     EvaluationsFrom(op, kernel_memo[log[k].key].code, 1) = 1

\* The rewrite the constructor is to perform: a vector dependency becomes
\* v_k[i], a scalar dependency s_k, every other node stays what it is.
RECURSIVE Renamed(_)
Renamed(e) ==
    IF \E k \in 1..Len(vector_exprs) : vector_exprs[k] = e
    THEN Subscript(Variable("v" \o ToString(
             (CHOOSE k \in 1..Len(vector_exprs) : vector_exprs[k] = e) - 1)),
             Variable("i"))
    ELSE IF \E k \in 1..Len(scalar_exprs) : scalar_exprs[k] = e
    THEN Variable("s" \o ToString(
             (CHOOSE k \in 1..Len(scalar_exprs) : scalar_exprs[k] = e) - 1))
    ELSE [e EXCEPT !.args = [k \in 1..Len(e.args) |-> Renamed(e.args[k])]]

\* C16: the constructor's rewrite never raises and never gives None, for
\* any node kind, and gives each target expression with its dependencies
\* renamed and every other node unchanged.
C16_RewriteTotalAndFramed ==
    builder_state \notin {"idle", "new"} =>
        /\ builder_state = "built"
        /\ Len(exprs) = Len(vec_exprs)
        /\ \A k \in 1..Len(exprs) : exprs[k] = Renamed(vec_exprs[k])

\* C17 as stated: the occupancy computation of a plan instance is performed
\* at most once, whether it succeeds or raises.
C17_ComputedAtMostOnce ==
    (plan_live /\ Cardinality(DOMAIN caller) = 1) => occ_computations <= 1

\* C17: for a plan instance called by one caller at a time, a computation
\* that succeeds is performed at most once and every later call of
\* occupancy_record(), invalid_reason() and __str__() uses its record; a
\* computation that raises is cached nowhere and is performed again by every
\* call.
C17_OnlySuccessIsComputedOnce ==
    (plan_live /\ Cardinality(DOMAIN caller) = 1) =>
        IF plan_raises
        THEN /\ occ_computations = Len(log)
             /\ \A k \in 1..Len(log) : log[k].kind \in {"ValueError", "text"}
        ELSE /\ occ_computations <= 1
             /\ \A k \in 1..Len(log) :
                  /\ log[k].rec = 1
                  /\ log[k].kind \in {"record", "None", "string"}
             /\ log # <<>> => occ_computations = 1

\* C17 witness: occupancy_record(), invalid_reason() and __str__() have all
\* been called on a feasible plan.
C17_Witness ==
    /\ plan_live
    /\ Cardinality(DOMAIN caller) = 1
    /\ ~plan_raises
    /\ Len(log) = 3
    /\ {log[k].method : k \in 1..3} = PlanMethods

----------------------------------------------------------------------------
\* Vocabulary of the microblock property, stated on the constructor's inputs

AlignedFloatsAt(k) == given_args.align_size * k

ElementsAt(k) == AlignedFloatsAt(k) \div given_args.dofs_per_el

\* (aligned_floats - elements*dofs_per_el) / aligned_floats <= 5%
PaddingAtMostFivePercent(k) ==
    100 * (AlignedFloatsAt(k) - ElementsAt(k) * given_args.dofs_per_el)
        <= 5 * AlignedFloatsAt(k)

AdmissibleChunks == {k \in 1..255 : PaddingAtMostFivePercent(k)}

\* C18: with microblocking allowed, construction sets aligned_floats to
\* align_size*k for the smallest k in 1..255 whose padding overhead is at most
\* 5%, with elements = floor(aligned_floats/dofs_per_el) >= 1 and
\* elements*dofs_per_el <= aligned_floats, and fails when there is no such k;
\* with microblocking disallowed, elements is 1 and aligned_floats is the
\* smallest multiple of align_size that is at least dofs_per_el.
C18_MicroblockLayout ==
    given_state \notin {"idle", "new", "scanning"} =>
        IF given_args.allow_microblocking
        THEN IF AdmissibleChunks = {}
             THEN given_state = "AssertionError"
             ELSE /\ given_state = "constructed"
                  /\ \E k \in AdmissibleChunks :
                       /\ \A j \in AdmissibleChunks : k <= j
                       /\ microblock.align_size = given_args.align_size
                       /\ microblock.aligned_floats = AlignedFloatsAt(k)
                       /\ microblock.elements = ElementsAt(k)
                  /\ microblock.elements >= 1
                  /\ microblock.elements * given_args.dofs_per_el
                        <= microblock.aligned_floats
        ELSE /\ given_state = "constructed"
             /\ microblock.align_size = given_args.align_size
             /\ microblock.elements = 1
             /\ microblock.aligned_floats % given_args.align_size = 0
             /\ microblock.aligned_floats >= given_args.dofs_per_el
             /\ microblock.aligned_floats - given_args.align_size
                   < given_args.dofs_per_el

\* C18 witness: microblocking allowed, and the scan went past the first
\* multiple to a block of several elements that still has padding.
C18_Witness ==
    /\ given_state = "constructed"
    /\ given_args.allow_microblocking
    /\ microblock.aligned_floats > given_args.align_size
    /\ microblock.elements > 1
    /\ microblock.aligned_floats > microblock.elements * given_args.dofs_per_el

\* C19 as stated: when the search returns, make_kernel has been called on no
\* plan but the returned one.
C19_KernelOnlyForChosenPlan ==
    (pc = "done" /\ outcome = "returned") => Range(kernels_made) \subseteq {result[1]}

\* C19: during a search driven by make_diff_plan or make_element_local_plan,
\* make_kernel is called on every plan target_func is called on, once per
\* call and in the same order, whether or not that plan is the one returned.
C19_KernelForEveryBenchmarkedPlan == kernels_made = calls

\* C19 witness: a minimizing search with the default slack and a log
\* filename, as make_diff_plan starts it, returned after make_kernel was
\* called on two plans.
C19_Witness ==
    /\ pc = "done"
    /\ outcome = "returned"
    /\ ~args.maximize
    /\ args.occupancy_slack = 50
    /\ args.log_filename # None
    /\ Len(kernels_made) = 2
    /\ \E k \in 1..2 : kernels_made[k] # result[1]

\* C20: in a run without a no-plan flag and with a feasible plan, every
\* feasible plan of maximum occupancy the scan has passed was benchmarked, so
\* that at selection time target_func has been called, and an empty candidate
\* list means every call declined.
C20_MaxOccupancyNeverPruned ==
    (Feasible # {} /\ ~NoPlanFlagSet) =>
        /\ pc = "loop" =>
             /\ \A k \in 1..(idx - 1) :
                  gen[plans[k]].occupancy = MaxFeasibleOccupancy
                      => plans[k] \in Range(calls)
             /\ idx > Len(plans) =>
                  /\ calls # <<>>
                  /\ plan_values = <<>> => Range(calls) \subseteq Declined
        /\ pc = "done" => calls # <<>>

\* C20 witness: selection time with slack 1, two feasible plans of which the
\* lower-occupancy one was pruned and the other declined.
C20_Witness ==
    /\ pc = "loop"
    /\ idx > Len(plans)
    /\ Len(plans) = 2
    /\ args.occupancy_slack = SlackScale
    /\ Len(calls) = 1
    /\ plan_values = <<>>

----------------------------------------------------------------------------
\* The plans make_diff_plan's generator yields.

\* The positions in the yielded sequence holding a plan of one kind.
YieldedOfKind(kind) == {n \in DOMAIN yielded : yielded[n].kind = kind}

\* The conditions under which the shared-memory matrix strategy applies: the
\* flag is absent, the image has the element's DOF count and the image
\* microblock is as wide as the given one.
SegmentedMatrixApplies ==
    /\ "cuda_no_smem_matrix" \notin discr_debug
    /\ image_dofs_per_el = PyInt(given.dofs_per_el)
    /\ aligned_image_dofs_per_microblock = given.microblock.aligned_floats

\* Segmented-matrix plans were yielded, all of them before every
\* shared-field plan.
SegmentedMatrixFirst ==
    /\ YieldedOfKind("seg_matrix") # {}
    /\ \A m \in YieldedOfKind("seg_matrix"), n \in YieldedOfKind("shared_field") :
           m < n

\* A shared-field plan was yielded for every (parallel, inline) of
\* 1..32 x 1..MAX_INLINE, and every shared-field plan has serial = 1.
SharedFieldForEveryParallelism ==
    /\ \A p \in 1..MAX_PARALLEL, i \in 1..MAX_INLINE :
           \E n \in YieldedOfKind("shared_field") :
               yielded[n].parallelism = Parallelism(p, i, 1)
    /\ \A n \in YieldedOfKind("shared_field") : yielded[n].parallelism.serial = 1

\* C21: once the generator of make_diff_plan is exhausted, it has yielded a
\* shared-field plan for every (parallel, inline) in 1..32 x 1..MAX_INLINE
\* with serial = 1, and, when "cuda_no_smem_matrix" is not a debug flag,
\* image_dofs_per_el equals given.dofs_per_el() and
\* aligned_image_dofs_per_microblock equals given.microblock.aligned_floats,
\* it has yielded segmented-matrix plans, all before the first shared-field
\* plan.
C21_SegmentedMatrixThenSharedField ==
    generator_pc = "exhausted" =>
        /\ SharedFieldForEveryParallelism
        /\ SegmentedMatrixApplies => SegmentedMatrixFirst

====
